---- MODULE Spec2Model ----
(***************************************************************************)
(* Model of the wifisafe animation splicer (src/src/main.rs) and of its    *)
(* validator (src/validator/src/main.rs).                                  *)
(*                                                                         *)
(* An anim file decodes (ssbh_lib) to a container: a format variant,       *)
(* scalar metadata, a list of groups (group_type, nodes), each node a name *)
(* and a list of tracks, each track a name and a (data_offset, data_size)  *)
(* descriptor into the container's one byte buffer.  splice_anim is a pure *)
(* function of the two decoded files; it is modelled by the operator       *)
(* splice_anim below, the drivers do_single_mode and do_batch_mode by      *)
(* actions.  A Rust panic (index out of range, unwrap of None) ends the    *)
(* process; it is modelled by the result status "Panic".                   *)
(***************************************************************************)
EXTENDS Integers, Sequences, FiniteSets, TLC

(***************************************************************************)
(* Bounds and the input families                                           *)
(***************************************************************************)

\* Length of every decoded byte buffer.
MaxBuf == 2

\* Bone / target names.
Names == {"A", "B"}

GroupTypes == {"Transform", "Visibility", "Material"}

\* Track names (the metadata a track carries besides its descriptor).
TrackNames == {"Transform", "Visibility"}

\* A buffer whose bytes are pairwise distinct, and distinct from those of
\* the buffer with another base: a byte copied from the wrong place or the
\* wrong file is then always visible.
Ramp(base) == [i \in 1..MaxBuf |-> base + i]

\* Track descriptors: two one-byte ranges, one range spanning the whole
\* buffer, and one that runs one byte past its end.
Ranges == {<<0, 1>>, <<1, 1>>, <<0, MaxBuf>>, <<1, MaxBuf>>}

Tr(n, o, s) == [name |-> n, data_offset |-> o, data_size |-> s]

\* Every range under the track name "Transform", and the first range also
\* under the name "Visibility".
TrackSet ==
    {Tr("Transform", r[1], r[2]) : r \in Ranges} \cup {Tr("Visibility", 0, 1)}

\* Track lists of a node: none, one track, or one of a few two-track lists
\* (same size at different places, different sizes, second out of range).
TrackSeqs ==
    {<<>>} \cup {<<t>> : t \in TrackSet}
    \cup {<<Tr("Transform", 0, 1), Tr("Visibility", 1, 1)>>,
          <<Tr("Transform", 1, 1), Tr("Transform", 0, MaxBuf)>>,
          <<Tr("Visibility", 0, 1), Tr("Transform", 1, MaxBuf)>>}

NodeSet == {[name |-> n, tracks |-> ts] : n \in Names, ts \in TrackSeqs}

Group(ty, nodes) == [group_type |-> ty, nodes |-> nodes]

\* A node whose one track is the first byte of the buffer.
PlainNode(n) == [name |-> n, tracks |-> <<Tr("Transform", 0, 1)>>]

\* A node of two tracks in range, the first longer than the second.
TwoTrackNode(n) ==
    [name |-> n, tracks |-> <<Tr("Transform", 0, MaxBuf), Tr("Transform", 0, 1)>>]

\* Node lists of at most one plain node.
PlainNodeSeqs == {<<>>} \cup {<<PlainNode(n)>> : n \in Names}

\* Node lists of at most one node of at most one track.
ShortNodeSeqs ==
    {<<>>} \cup {<<nd>> : nd \in {x \in NodeSet : Len(x.tracks) <= 1}}

\* Node lists of a group: at most one node, or two nodes of at most one
\* track each, one of them plain.
NodeSeqs ==
    {<<>>} \cup {<<nd>> : nd \in NodeSet}
    \cup {<<PlainNode(n), nd>> :
            n \in Names, nd \in {x \in NodeSet : Len(x.tracks) <= 1}}
    \cup {<<nd, PlainNode(n)>> :
            n \in Names, nd \in {x \in NodeSet : Len(x.tracks) <= 1}}
    \cup {<<TwoTrackNode(n1), PlainNode(n2)>> : n1, n2 \in Names}

\* Group lists of a container: none, one group, or two groups of at most
\* one node each, one of them with a plain node list.
GroupSeqs ==
    {<<>>}
    \cup {<<Group(ty, ns)>> : ty \in GroupTypes, ns \in NodeSeqs}
    \cup {<<Group(t1, n1), Group(t2, n2)>> :
            t1, t2 \in GroupTypes, n1 \in PlainNodeSeqs, n2 \in ShortNodeSeqs}
    \cup {<<Group(t1, n1), Group(t2, n2)>> :
            t1, t2 \in GroupTypes, n1 \in ShortNodeSeqs, n2 \in PlainNodeSeqs}

\* Scalar metadata and buffer of the supported files: the two differ in
\* every field.
Envelopes ==
    {[variant |-> "V20", final_frame_index |-> 1, unk1 |-> 1, unk2 |-> 2,
      name |-> "a", unk_data |-> "none", buffer |-> Ramp(0)],
     [variant |-> "V21", final_frame_index |-> 2, unk1 |-> 3, unk2 |-> 4,
      name |-> "b", unk_data |-> "x", buffer |-> Ramp(16)]}

Anim(e, groups) ==
    [variant |-> e.variant, final_frame_index |-> e.final_frame_index,
     unk1 |-> e.unk1, unk2 |-> e.unk2, name |-> e.name,
     unk_data |-> e.unk_data, groups |-> groups, buffer |-> e.buffer]

\* A legacy (V12) container; splice_anim never looks inside it.
LegacyAnim ==
    [variant |-> "V12", final_frame_index |-> 3, unk1 |-> 0, unk2 |-> 0,
     name |-> "c", unk_data |-> "none", groups |-> <<>>, buffer |-> <<>>]

SupportedAnims == {Anim(e, gs) : e \in Envelopes, gs \in GroupSeqs}

NoAnim ==
    [variant |-> "none", final_frame_index |-> 0, unk1 |-> 0, unk2 |-> 0,
     name |-> "", unk_data |-> "none", groups |-> <<>>, buffer |-> <<>>]

\* What Anim::from_file yields for a path: a decoded container or an error.
File(a) == [readable |-> TRUE, anim |-> a]
Unreadable == [readable |-> FALSE, anim |-> NoAnim]

LegacyFile == File(LegacyAnim)

\* The supported files with at most one group of at most one plain node.
PlainFiles ==
    {File(Anim(e, gs)) : e \in Envelopes,
        gs \in {<<>>} \cup {<<Group(ty, ns)>> : ty \in GroupTypes, ns \in PlainNodeSeqs}}

SupportedFiles == {File(a) : a \in SupportedAnims}

\* The pairs (reference, modified) of files given to the splicer: two
\* supported files of which one is plain, a supported file with itself, and
\* the pairs in which a file is legacy or cannot be read.
FilePairs ==
    (PlainFiles \X SupportedFiles) \cup (SupportedFiles \X PlainFiles)
    \cup {<<f, f>> : f \in SupportedFiles}
    \cup ({LegacyFile, Unreadable} \X (PlainFiles \cup {LegacyFile, Unreadable}))
    \cup ((PlainFiles \cup {LegacyFile, Unreadable}) \X {LegacyFile, Unreadable})

(***************************************************************************)
(* splice_anim                                                             *)
(***************************************************************************)

Ok(anim) == [status |-> "Ok", error |-> "", anim |-> anim]
Err(msg) == [status |-> "Err", error |-> msg, anim |-> NoAnim]
\* An index out of range or an unwrap of None: the process ends.
Panic == [status |-> "Panic", error |-> "", anim |-> NoAnim]

\* start_index..end_index lies inside the buffer (else the slice panics).
InRange(track, buffer) == track.data_offset + track.data_size <= Len(buffer)

\* &buffer.elements[start_index..end_index]
Slice(track, buffer) ==
    SubSeq(buffer, track.data_offset + 1, track.data_offset + track.data_size)

IsTransform(group) == group.group_type = "Transform"

RECURSIVE TransformNodesOf(_)
TransformNodesOf(groups) ==
    IF groups = <<>> THEN <<>>
    ELSE (IF IsTransform(Head(groups)) THEN Head(groups).nodes ELSE <<>>)
            \o TransformNodesOf(Tail(groups))

\* The nodes the loops over the Transform groups of an anim visit (lines
\* 54-58, 93-97, 122-126): those of every Transform group, in order.
TransformNodes(anim) == TransformNodesOf(anim.groups)

RECURSIVE GatherNodes(_, _, _)
\* Lines 58-67: per Transform node of the reference, the first track's
\* slice, keyed by node name (a later node of the same name replaces the
\* entry), and the node names in order.
GatherNodes(nodes, buffer, acc) ==
    IF acc.panic \/ nodes = <<>> THEN acc
    ELSE LET node == Head(nodes) IN
         IF node.tracks = <<>> THEN [acc EXCEPT !.panic = TRUE]
         ELSE IF ~InRange(node.tracks[1], buffer) THEN [acc EXCEPT !.panic = TRUE]
         ELSE GatherNodes(Tail(nodes), buffer,
                [panic |-> FALSE,
                 node_name_to_buffer |->
                    (node.name :> Slice(node.tracks[1], buffer))
                        @@ acc.node_name_to_buffer,
                 node_names |-> Append(acc.node_names, node.name)])

\* Lines 50-69: "Gather reference data".
GatherReference(reference_anim) ==
    GatherNodes(TransformNodes(reference_anim), reference_anim.buffer,
        [panic |-> FALSE, node_name_to_buffer |-> [x \in {} |-> <<>>],
         node_names |-> <<>>])

\* Lines 75-80: the group types of the modified anim.
ModifiedGroupTypes(modified_anim) ==
    {modified_anim.groups[i].group_type : i \in 1..Len(modified_anim.groups)}

\* Lines 107-109 and 211-213: the bytes appended for a track copied from
\* the reference: the entry of the node's name, whichever track it is.
ReferencePayload(gathered, node, track) ==
    IF node.name \in DOMAIN gathered.node_name_to_buffer
    THEN [ok |-> TRUE, bytes |-> gathered.node_name_to_buffer[node.name]]
    ELSE [ok |-> FALSE, bytes |-> <<>>]

\* Lines 139-142 and 173-176: the bytes appended for a track copied from
\* the modified anim: the track's own range of the modified buffer.
ModifiedPayload(buffer, node, track) ==
    IF InRange(track, buffer)
    THEN [ok |-> TRUE, bytes |-> Slice(track, buffer)]
    ELSE [ok |-> FALSE, bytes |-> <<>>]

\* src names where a copied track's bytes come from.
FromReference(gathered) ==
    [reference |-> TRUE, gathered |-> gathered, buffer |-> <<>>]
FromModified(buffer) ==
    [reference |-> FALSE,
     gathered |-> [panic |-> FALSE, node_name_to_buffer |-> [x \in {} |-> <<>>],
                   node_names |-> <<>>],
     buffer |-> buffer]

Payload(src, node, track) ==
    IF src.reference THEN ReferencePayload(src.gathered, node, track)
    ELSE ModifiedPayload(src.buffer, node, track)

\* The write cursor advances by the track's data_size.
AdvanceOffset(current_offset, track) == current_offset + track.data_size

RECURSIVE CopyTracks(_, _, _, _)
\* The loops over a node's tracks (lines 102-113, 134-146, 168-180,
\* 206-217): the new track is the source track with data_offset set to the
\* cursor; the payload is appended; the cursor advances by data_size.
\* acc.items collects the new tracks.
CopyTracks(tracks, node, src, acc) ==
    IF acc.panic \/ tracks = <<>> THEN acc
    ELSE LET track == Head(tracks)
             payload == Payload(src, node, track)
         IN IF ~payload.ok THEN [acc EXCEPT !.panic = TRUE]
            ELSE CopyTracks(Tail(tracks), node, src,
                    [panic |-> FALSE,
                     current_offset |-> AdvanceOffset(acc.current_offset, track),
                     new_buffer |-> acc.new_buffer \o payload.bytes,
                     items |-> Append(acc.items,
                        [track EXCEPT !.data_offset = acc.current_offset])])

RECURSIVE CopyNodes(_, _, _)
\* The loops over a group's nodes; acc.items collects the new nodes.
CopyNodes(nodes, src, acc) ==
    IF acc.panic \/ nodes = <<>> THEN acc
    ELSE LET node == Head(nodes)
             t == CopyTracks(node.tracks, node, src, [acc EXCEPT !.items = <<>>])
         IN CopyNodes(Tail(nodes), src,
                [t EXCEPT !.items =
                    Append(acc.items, [name |-> node.name, tracks |-> t.items])])

RECURSIVE CopyGroups(_, _, _)
\* The loops that push one new group per source group (lines 155-184 and
\* 190-221); acc.items collects the new groups.
CopyGroups(groups, src, acc) ==
    IF acc.panic \/ groups = <<>> THEN acc
    ELSE LET group == Head(groups)
             n == CopyNodes(group.nodes, src, [acc EXCEPT !.items = <<>>])
         IN CopyGroups(Tail(groups), src,
                [n EXCEPT !.items =
                    Append(acc.items, Group(group.group_type, n.items))])

\* SeenInReference with the lookup lost: no name counts as seen.
SeenInReference_Never(node_names, name) == FALSE

\* Line 127: reference_node_names.contains(&modified_node.name)
SeenInReference(node_names, name) ==
    \E i \in 1..Len(node_names) : node_names[i] = name

\* Lines 126-129: the modified Transform nodes that are kept.
NewBones(modified_anim, node_names) ==
    SelectSeq(TransformNodes(modified_anim),
              LAMBDA node : ~SeenInReference(node_names, node.name))

\* Lines 156-158: the modified groups copied whole.
ModifiedOtherGroups(modified_anim) ==
    SelectSeq(modified_anim.groups, LAMBDA g : ~IsTransform(g))

\* FallbackGroups without the test of line 194.
FallbackGroups_All(reference_anim, modified_anim) ==
    SelectSeq(reference_anim.groups, LAMBDA g : ~IsTransform(g))

\* Lines 191-196: the reference groups copied by fallback.
FallbackGroups(reference_anim, modified_anim) ==
    SelectSeq(reference_anim.groups,
              LAMBDA g : ~IsTransform(g)
                  /\ g.group_type \notin ModifiedGroupTypes(modified_anim))

\* OutputAnim with final_frame_index taken from the modified anim.
OutputAnim_ModifiedFrameIndex(reference_anim, modified_anim, new_groups, new_buffer) ==
    [variant |-> reference_anim.variant,
     final_frame_index |-> modified_anim.final_frame_index,
     unk1 |-> reference_anim.unk1, unk2 |-> reference_anim.unk2,
     name |-> reference_anim.name,
     unk_data |-> IF reference_anim.variant = "V21"
                  THEN reference_anim.unk_data ELSE "none",
     groups |-> new_groups, buffer |-> new_buffer]

\* Lines 224-260: the result takes the reference's variant and scalars.
OutputAnim(reference_anim, modified_anim, new_groups, new_buffer) ==
    [variant |-> reference_anim.variant,
     final_frame_index |-> reference_anim.final_frame_index,
     unk1 |-> reference_anim.unk1, unk2 |-> reference_anim.unk2,
     name |-> reference_anim.name,
     unk_data |-> IF reference_anim.variant = "V21"
                  THEN reference_anim.unk_data ELSE "none",
     groups |-> new_groups, buffer |-> new_buffer]

\* Lines 49-260: the merge of two supported anims.
Merge(reference_anim, modified_anim) ==
    LET gathered == GatherReference(reference_anim)
        start == [panic |-> gathered.panic, current_offset |-> 0,
                  new_buffer |-> <<>>, items |-> <<>>]
        \* lines 92-117
        s1 == CopyNodes(TransformNodes(reference_anim),
                        FromReference(gathered), start)
        \* lines 121-150
        s2 == CopyNodes(NewBones(modified_anim, gathered.node_names),
                        FromModified(modified_anim.buffer), s1)
        \* line 151
        g2 == [s2 EXCEPT !.items = <<Group("Transform", s2.items)>>]
        \* lines 154-185
        s3 == CopyGroups(ModifiedOtherGroups(modified_anim),
                         FromModified(modified_anim.buffer), g2)
        \* lines 189-222
        s4 == CopyGroups(FallbackGroups(reference_anim, modified_anim),
                         FromReference(gathered), s3)
    IN IF s4.panic THEN Panic
       ELSE Ok(OutputAnim(reference_anim, modified_anim, s4.items, s4.new_buffer))

\* VersionError with the two checks in the other order.
VersionError_ModifiedFirst(reference_anim, modified_anim) ==
    IF modified_anim.variant = "V12" THEN "v12 modified anim not supported!"
    ELSE IF reference_anim.variant = "V12" THEN "v12 reference anim not supported!"
    ELSE ""

\* Lines 41-47: "Validate Anim Versions".
VersionError(reference_anim, modified_anim) ==
    IF reference_anim.variant = "V12" THEN "v12 reference anim not supported!"
    ELSE IF modified_anim.variant = "V12" THEN "v12 modified anim not supported!"
    ELSE ""

\* Lines 25-261.
splice_anim(reference_file, modified_file) ==
    IF ~reference_file.readable THEN Err("could not read reference anim")
    ELSE IF ~modified_file.readable THEN Err("could not read modified anim")
    ELSE IF VersionError(reference_file.anim, modified_file.anim) # ""
    THEN Err(VersionError(reference_file.anim, modified_file.anim))
    ELSE Merge(reference_file.anim, modified_file.anim)

(***************************************************************************)
(* validate_anim (src/validator/src/main.rs)                               *)
(*                                                                         *)
(* The validator reads both files through ssbh_data: a track carries its   *)
(* decoded values, TrackValues::Transform(..) or another variant.          *)
(***************************************************************************)

\* Length of the longest decoded value sequence.
MaxFrames == 2

\* Transform samples.  Besides these, "NaN" is a sample with a NaN
\* component, which the f32 comparison finds different from every sample,
\* itself included.
Samples == {"0", "1"}

ValueSeqs ==
    UNION {[1..n -> Samples] : n \in 0..MaxFrames} \cup {<<"NaN">>}

Values(kind, values) == [kind |-> kind, values |-> values]

\* The decoded tracks: Transform values, or Visibility values.
DataTracks ==
    {[values |-> Values("Transform", vs)] : vs \in ValueSeqs}
    \cup {[values |-> Values("Visibility", <<"true">>)]}

\* Few tracks for the nodes of two-node lists.
ShortDataTracks ==
    {[values |-> Values("Transform", <<"0">>)],
     [values |-> Values("Transform", <<"1">>)],
     [values |-> Values("Visibility", <<"true">>)]}

DataNodes ==
    {[name |-> n, tracks |-> ts] : n \in Names,
        ts \in {<<>>} \cup {<<t>> : t \in DataTracks}
            \cup {<<t, u>> : t \in {[values |-> Values("Transform", <<"0">>)]},
                             u \in ShortDataTracks}}

ShortDataNodes ==
    {[name |-> n, tracks |-> ts] : n \in Names,
        ts \in {<<>>} \cup {<<t>> : t \in ShortDataTracks}}

DataNodeSeqs ==
    {<<>>} \cup {<<nd>> : nd \in DataNodes}
    \cup {<<n1, n2>> : n1, n2 \in ShortDataNodes}

VisibilityData == Group("Visibility", <<[name |-> "A", tracks |->
                    <<[values |-> Values("Visibility", <<"true">>)]>>]>>)

\* Visibility data of other contents, and a Material group.
VisibilityHidden == Group("Visibility", <<[name |-> "B", tracks |->
                    <<[values |-> Values("Visibility", <<"false">>)]>>]>>)
MaterialData == Group("Material", <<[name |-> "A", tracks |->
                    <<[values |-> Values("Vector4", <<"0">>)]>>]>>)

\* Group lists: no Transform group (without or with Visibility and Material
\* groups), one, one after a Visibility group, or two Transform groups.
DataGroupSeqs ==
    {<<>>, <<VisibilityData>>, <<VisibilityHidden>>, <<MaterialData>>,
     <<VisibilityData, MaterialData>>}
    \cup {<<Group("Transform", ns)>> : ns \in DataNodeSeqs}
    \cup {<<VisibilityData, Group("Transform", <<nd>>)>> : nd \in ShortDataNodes}
    \cup {<<Group("Transform", <<nd>>), Group("Transform", <<>>)>> :
            nd \in ShortDataNodes}

AnimData(final_frame_index, groups) ==
    [final_frame_index |-> final_frame_index, groups |-> groups]

NoData == AnimData(0, <<>>)

\* What AnimData::from_file yields for a path: decoded data or an error.
DataFile(d) == [readable |-> TRUE, data |-> d]
UnreadableData == [readable |-> FALSE, data |-> NoData]

DataFiles ==
    {DataFile(AnimData(f, gs)) : f \in {1, 2}, gs \in DataGroupSeqs}
    \cup {UnreadableData}

Rating(rating, kind, node, index, r_len, m_len, r_value, m_value) ==
    [rating |-> rating, kind |-> kind, node |-> node, index |-> index,
     reference_len |-> r_len, modified_len |-> m_len,
     reference_value |-> r_value, modified_value |-> m_value]

Safe == Rating("Safe", "", "", 0, 0, 0, "", "")
Warning(kind) == Rating("Warning", kind, "", 0, 0, 0, "", "")
\* SafetyRating::Unsafe with the facts its message cites.
Unsafe(kind, node) == Rating("Unsafe", kind, node, 0, 0, 0, "", "")
UnsafeLength(node, reference_len, modified_len) ==
    Rating("Unsafe", "length", node, 0, reference_len, modified_len, "", "")
UnsafeValue(node, index, reference_value, modified_value) ==
    Rating("Unsafe", "value", node, index, 0, 0, reference_value, modified_value)

\* What AnimData::from_file (lines 39, 49) makes of a container file: each
\* track's values are read from the bytes its descriptor addresses, one
\* sample per byte, typed by the track's metadata; a container with a
\* descriptor past the buffer does not decode.
DecodeTrack(anim, track) ==
    [values |-> Values(track.name,
        [i \in 1..track.data_size |-> ToString(anim.buffer[track.data_offset + i])])]

DecodeNode(anim, node) ==
    [name |-> node.name,
     tracks |-> [k \in 1..Len(node.tracks) |-> DecodeTrack(anim, node.tracks[k])]]

DecodeGroup(anim, group) ==
    Group(group.group_type,
          [i \in 1..Len(group.nodes) |-> DecodeNode(anim, group.nodes[i])])

Decodes(anim) ==
    \A g \in 1..Len(anim.groups) : \A i \in 1..Len(anim.groups[g].nodes) :
        \A k \in 1..Len(anim.groups[g].nodes[i].tracks) :
            InRange(anim.groups[g].nodes[i].tracks[k], anim.buffer)

Decode(anim) ==
    IF Decodes(anim)
    THEN DataFile(AnimData(anim.final_frame_index,
            [g \in 1..Len(anim.groups) |-> DecodeGroup(anim, anim.groups[g])]))
    ELSE UnreadableData

\* Lines 26-36: the first group of the type, if any.
get_group_by_type(anim_data, group_type) ==
    LET found == {i \in 1..Len(anim_data.groups) :
                    anim_data.groups[i].group_type = group_type}
    IN IF found = {} THEN [some |-> FALSE, group |-> Group(group_type, <<>>)]
       ELSE [some |-> TRUE,
             group |-> anim_data.groups[CHOOSE i \in found : \A j \in found : i <= j]]

\* Line 76: the HashMap collected from (name, node) pairs: of two nodes of
\* one name, the later one stays.
mod_nodes_by_name(nodes) ==
    [n \in {nodes[i].name : i \in 1..Len(nodes)} |->
        nodes[CHOOSE i \in 1..Len(nodes) :
                /\ nodes[i].name = n
                /\ \A j \in 1..Len(nodes) : nodes[j].name = n => j <= i]]

\* Lines 81-99: the reference node is skipped: no track, or a first track
\* whose values are not Transform values.
ReferenceSkipped(reference_node) ==
    \/ reference_node.tracks = <<>>
    \/ reference_node.tracks[1].values.kind # "Transform"

\* Line 123: reference_value != modified_value, on f32 components.
ValuesDiffer(reference_value, modified_value) ==
    \/ reference_value # modified_value
    \/ reference_value = "NaN"
    \/ modified_value = "NaN"

\* FirstDifference reporting the last differing index instead.
FirstDifference_Last(reference_values, modified_values) ==
    LET differing == {i \in 1..Len(reference_values) :
                        ValuesDiffer(reference_values[i], modified_values[i])}
    IN IF differing = {} THEN 0 - 1
       ELSE (CHOOSE i \in differing : \A j \in differing : j <= i) - 1

\* Lines 122-134: the first index of the zipped sequences at which the
\* values differ (counted from 0), or -1.
FirstDifference(reference_values, modified_values) ==
    LET differing == {i \in 1..Len(reference_values) :
                        ValuesDiffer(reference_values[i], modified_values[i])}
    IN IF differing = {} THEN 0 - 1
       ELSE (CHOOSE i \in differing : \A j \in differing : i <= j) - 1

\* Lines 101-134: the checks of one reference node that is not skipped;
\* Safe stands for "go on with the next node".
CompareNode(reference_node, by_name) ==
    IF reference_node.name \notin DOMAIN by_name
    THEN Unsafe("missing_node", reference_node.name)
    ELSE LET modified_node == by_name[reference_node.name] IN
         IF modified_node.tracks = <<>>
         THEN Unsafe("missing_track", modified_node.name)
         ELSE IF modified_node.tracks[1].values.kind # "Transform"
         THEN Unsafe("not_transform", modified_node.name)
         ELSE LET reference_values == reference_node.tracks[1].values.values
                  modified_values == modified_node.tracks[1].values.values
              IN IF Len(reference_values) # Len(modified_values)
                 THEN UnsafeLength(modified_node.name, Len(reference_values),
                                   Len(modified_values))
                 ELSE LET index == FirstDifference(reference_values, modified_values)
                      IN IF index >= 0
                         THEN UnsafeValue(modified_node.name, index,
                                          reference_values[index + 1],
                                          modified_values[index + 1])
                         ELSE Safe

RECURSIVE CompareNodes(_, _)
\* Lines 80-137: the loop over the reference's Transform nodes.
CompareNodes(reference_nodes, by_name) ==
    IF reference_nodes = <<>> THEN Safe
    ELSE IF ReferenceSkipped(Head(reference_nodes))
    THEN CompareNodes(Tail(reference_nodes), by_name)
    ELSE LET r == CompareNode(Head(reference_nodes), by_name) IN
         IF r.rating # "Safe" THEN r
         ELSE CompareNodes(Tail(reference_nodes), by_name)

\* validate_anim with the group presence checked before final_frame_index.
validate_anim_PresenceFirst(reference_file, modified_file) ==
    IF ~reference_file.readable THEN Warning("reference_unreadable")
    ELSE IF ~modified_file.readable THEN Warning("modified_unreadable")
    ELSE LET reference_anim == reference_file.data
             modified_anim == modified_file.data
             ref_trans_group == get_group_by_type(reference_anim, "Transform")
             mod_trans_group == get_group_by_type(modified_anim, "Transform")
         IN IF ref_trans_group.some /\ ~mod_trans_group.some
            THEN Unsafe("no_transform_group", "")
            ELSE IF ~ref_trans_group.some /\ mod_trans_group.some
            THEN Warning("reference_no_transform_group")
            ELSE IF ~ref_trans_group.some /\ ~mod_trans_group.some
            THEN Safe
            ELSE IF reference_anim.final_frame_index # modified_anim.final_frame_index
            THEN Unsafe("final_frame_index", "")
            ELSE CompareNodes(ref_trans_group.group.nodes,
                              mod_nodes_by_name(mod_trans_group.group.nodes))

\* Lines 38-138.
validate_anim(reference_file, modified_file) ==
    IF ~reference_file.readable THEN Warning("reference_unreadable")
    ELSE IF ~modified_file.readable THEN Warning("modified_unreadable")
    ELSE LET reference_anim == reference_file.data
             modified_anim == modified_file.data
             ref_trans_group == get_group_by_type(reference_anim, "Transform")
             mod_trans_group == get_group_by_type(modified_anim, "Transform")
         IN IF reference_anim.final_frame_index # modified_anim.final_frame_index
            THEN Unsafe("final_frame_index", "")
            ELSE IF ref_trans_group.some /\ ~mod_trans_group.some
            THEN Unsafe("no_transform_group", "")
            ELSE IF ~ref_trans_group.some /\ mod_trans_group.some
            THEN Warning("reference_no_transform_group")
            ELSE IF ~ref_trans_group.some /\ ~mod_trans_group.some
            THEN Safe
            ELSE CompareNodes(ref_trans_group.group.nodes,
                              mod_nodes_by_name(mod_trans_group.group.nodes))

(***************************************************************************)
(* The splice drivers: do_single_mode and do_batch_mode                    *)
(***************************************************************************)

\* Number of file names of the batch folders.
MaxFiles == 2

FileNames == 1..MaxFiles

\* The files of the batch folders: two plain supported files, a legacy file
\* and a file with a Transform node without a track.
BatchFiles ==
    {File(Anim(e, <<Group("Transform",
            <<PlainNode(IF e.variant = "V20" THEN "A" ELSE "B")>>)>>)) :
        e \in Envelopes}
    \cup {LegacyFile}
    \cup {File(Anim(e, <<Group("Transform", <<[name |-> "A", tracks |-> <<>>]>>)>>)) :
            e \in {x \in Envelopes : x.variant = "V20"}}

\* A folder entry: the file of that name, if the folder has one.
Missing == [present |-> FALSE, file |-> Unreadable]
Present(file) == [present |-> TRUE, file |-> file]

\* The lists of pairwise distinct file names (read_dir lists each name of a
\* folder once, in any order).
NameLists ==
    UNION {{l \in [1..n -> FileNames] : \A i, j \in 1..n : l[i] = l[j] => i = j} :
            n \in 0..MaxFiles}

VARIABLES
    pc,              \* "single", "batch": the driver running; "done" (Ok
                     \* returned), "failed" (Err returned), "panicked"
    reference_file,  \* single mode: what the reference path decodes to
    modified_file,   \* single mode: what the modified path decodes to
    output_file,     \* single mode: what the output path holds
    reference_anim_paths,  \* batch mode: the reference folder, by file name
    modified_anim_paths,   \* batch mode: the modified folder's list
    idx,                   \* batch mode: position of the loop in that list
    output_dir,            \* batch mode: the output folder, by file name
    call,            \* the last call of splice_anim and its result
    reference_data,  \* validator: what the reference path decodes to
    modified_data,   \* validator: what the modified path decodes to
    rating           \* validator: what validate_anim returned

splice_vars == <<reference_file, modified_file, output_file, reference_anim_paths,
                 modified_anim_paths, idx, output_dir, call>>
validate_vars == <<reference_data, modified_data, rating>>
vars == <<pc, splice_vars, validate_vars>>

\* The validator does not run.
NoValidation ==
    /\ reference_data = UnreadableData
    /\ modified_data = UnreadableData
    /\ rating = Safe

\* file_name is the name of the pair in batch mode, 0 in single mode.
NoCall == [made |-> FALSE, file_name |-> 0, reference |-> Unreadable,
           modified |-> Unreadable, result |-> Err("")]
Absent == [written |-> FALSE, anim |-> NoAnim]
Written(anim) == [written |-> TRUE, anim |-> anim]

\* main with -r, -m, -o.
InitSingle ==
    /\ pc = "single"
    /\ \E p \in FilePairs : reference_file = p[1] /\ modified_file = p[2]
    /\ output_file = Absent
    /\ reference_anim_paths = [n \in FileNames |-> Missing]
    /\ modified_anim_paths = <<>>
    /\ idx = 1
    /\ output_dir = [n \in FileNames |-> Absent]
    /\ call = NoCall
    /\ NoValidation

\* main with the three folders.
InitBatch ==
    /\ pc = "batch"
    /\ reference_file = Unreadable
    /\ modified_file = Unreadable
    /\ output_file = Absent
    /\ reference_anim_paths \in [FileNames -> {Missing} \cup {Present(f) : f \in BatchFiles}]
    /\ \E names \in NameLists :
        modified_anim_paths \in
            {l \in [1..Len(names) -> [file_name : FileNames, file : BatchFiles]] :
                \A i \in 1..Len(names) : l[i].file_name = names[i]}
    /\ idx = 1
    /\ output_dir = [n \in FileNames |-> Absent]
    /\ call = NoCall
    /\ NoValidation

Init == InitSingle \/ InitBatch

Called(file_name, reference, modified, result) ==
    [made |-> TRUE, file_name |-> file_name, reference |-> reference,
     modified |-> modified, result |-> result]

\* Lines 315-328: do_single_mode; write_to_file succeeds or fails.
do_single_mode ==
    /\ pc = "single"
    /\ LET new_anim == splice_anim(reference_file, modified_file) IN
        /\ call' = Called(0, reference_file, modified_file, new_anim)
        /\ \/ /\ new_anim.status = "Panic"
              /\ pc' = "panicked"
              /\ UNCHANGED output_file
           \/ /\ new_anim.status = "Err"
              /\ pc' = "failed"
              /\ UNCHANGED output_file
           \/ /\ new_anim.status = "Ok"
              /\ pc' = "done"
              /\ output_file' = Written(new_anim.anim)
           \/ /\ new_anim.status = "Ok"
              /\ pc' = "failed"
              /\ UNCHANGED output_file
    /\ UNCHANGED <<reference_file, modified_file, reference_anim_paths,
                   modified_anim_paths, idx, output_dir, validate_vars>>

\* Lines 283-294: the modified file has no reference file of its name.
batch_skip ==
    /\ pc = "batch"
    /\ idx <= Len(modified_anim_paths)
    /\ ~reference_anim_paths[modified_anim_paths[idx].file_name].present
    /\ idx' = idx + 1
    /\ UNCHANGED <<pc, reference_file, modified_file, output_file,
                   reference_anim_paths, modified_anim_paths, output_dir, call,
                   validate_vars>>

\* Lines 296-310: the pair is spliced; an error skips the pair, a panic
\* ends the process, a failed write_to_file returns from do_batch_mode.
batch_splice ==
    /\ pc = "batch"
    /\ idx <= Len(modified_anim_paths)
    /\ reference_anim_paths[modified_anim_paths[idx].file_name].present
    /\ LET modified_anim_path == modified_anim_paths[idx]
           matching_vanilla_anim_path ==
                reference_anim_paths[modified_anim_path.file_name]
           new_anim == splice_anim(matching_vanilla_anim_path.file,
                                   modified_anim_path.file)
       IN /\ call' = Called(modified_anim_path.file_name,
                            matching_vanilla_anim_path.file,
                            modified_anim_path.file, new_anim)
          /\ \/ /\ new_anim.status = "Panic"
                /\ pc' = "panicked"
                /\ UNCHANGED <<idx, output_dir>>
             \/ /\ new_anim.status = "Err"
                /\ idx' = idx + 1
                /\ UNCHANGED <<pc, output_dir>>
             \/ /\ new_anim.status = "Ok"
                /\ output_dir' =
                    [output_dir EXCEPT ![modified_anim_path.file_name] =
                        Written(new_anim.anim)]
                /\ idx' = idx + 1
                /\ UNCHANGED pc
             \/ /\ new_anim.status = "Ok"
                /\ pc' = "failed"
                /\ UNCHANGED <<idx, output_dir>>
    /\ UNCHANGED <<reference_file, modified_file, output_file,
                   reference_anim_paths, modified_anim_paths, validate_vars>>

\* Line 312: the loop is over, do_batch_mode returns Ok(()).
batch_return ==
    /\ pc = "batch"
    /\ idx > Len(modified_anim_paths)
    /\ pc' = "done"
    /\ UNCHANGED <<splice_vars, validate_vars>>

Next == do_single_mode \/ batch_skip \/ batch_splice \/ batch_return

Spec == Init /\ [][Next]_vars

\* The batch driver alone.
NextBatch == batch_skip \/ batch_splice \/ batch_return

\* Lines 282-312 seen on the control state only: the loop goes on to the
\* next modified file, or do_batch_mode ends (by returning or by a panic).
\* Every step of NextBatch is such a turn.
batch_turn ==
    /\ pc = "batch"
    /\ \/ idx' = idx + 1 /\ pc' = pc
       \/ idx' = idx /\ pc' \in {"done", "failed", "panicked"}

\* The loop is straight-line code over a list, without waits: while
\* do_batch_mode runs, it takes its next turn.
SpecBatch == InitBatch /\ [][NextBatch]_vars /\ WF_<<pc, idx>>(batch_turn)

(***************************************************************************)
(* The validator on one pair of files                                      *)
(***************************************************************************)

\* The splicer does not run.
NoSplice ==
    /\ reference_file = Unreadable
    /\ modified_file = Unreadable
    /\ output_file = Absent
    /\ reference_anim_paths = [n \in FileNames |-> Missing]
    /\ modified_anim_paths = <<>>
    /\ idx = 1
    /\ output_dir = [n \in FileNames |-> Absent]
    /\ call = NoCall

InitValidate ==
    /\ pc = "validate"
    /\ reference_data \in DataFiles
    /\ modified_data \in DataFiles
    /\ rating = Safe
    /\ NoSplice

\* Line 190: validate_anim on a matching pair.
validate ==
    /\ pc = "validate"
    /\ rating' = validate_anim(reference_data, modified_data)
    /\ pc' = "validated"
    /\ UNCHANGED <<splice_vars, reference_data, modified_data>>

NextValidate == validate

SpecValidate == InitValidate /\ [][NextValidate]_vars

(***************************************************************************)
(* Views used to state the claims                                          *)
(***************************************************************************)

\* The bytes a track addresses in a buffer; -1 stands for a position past
\* the end of the buffer.
Bytes(buffer, track) ==
    [i \in 1..track.data_size |->
        IF track.data_offset + i <= Len(buffer)
        THEN buffer[track.data_offset + i] ELSE -1]

\* A track without its offset: its metadata, its size and its payload.
TrackView(anim, track) ==
    [name |-> track.name, data_size |-> track.data_size,
     bytes |-> Bytes(anim.buffer, track)]

NodeView(anim, node) ==
    [name |-> node.name,
     tracks |-> [k \in 1..Len(node.tracks) |-> TrackView(anim, node.tracks[k])]]

NodesView(anim, nodes) == [i \in 1..Len(nodes) |-> NodeView(anim, nodes[i])]

GroupsOfType(anim, ty) == SelectSeq(anim.groups, LAMBDA g : g.group_type = ty)

HasGroup(anim, ty) == GroupsOfType(anim, ty) # <<>>

NodeNames(nodes) == {nodes[i].name : i \in 1..Len(nodes)}

RECURSIVE TracksOfNodes(_)
TracksOfNodes(nodes) ==
    IF nodes = <<>> THEN <<>>
    ELSE Head(nodes).tracks \o TracksOfNodes(Tail(nodes))

RECURSIVE TracksOfGroups(_)
\* The tracks of a container in emission order.
TracksOfGroups(groups) ==
    IF groups = <<>> THEN <<>>
    ELSE TracksOfNodes(Head(groups).nodes) \o TracksOfGroups(Tail(groups))

RECURSIVE SumSizes(_)
SumSizes(tracks) ==
    IF tracks = <<>> THEN 0 ELSE Head(tracks).data_size + SumSizes(Tail(tracks))

Supported(file) == file.readable /\ file.anim.variant \in {"V20", "V21"}

\* splice_anim was called on two supported containers.
SplicedSupported ==
    call.made /\ Supported(call.reference) /\ Supported(call.modified)

\* splice_anim returned a container.
Spliced == SplicedSupported /\ call.result.status = "Ok"

RefAnim == call.reference.anim
ModAnim == call.modified.anim
OutAnim == call.result.anim

\* Every track range of the container lies inside its buffer.
RangesValid(anim) ==
    \A i \in 1..Len(TracksOfGroups(anim.groups)) :
        TracksOfGroups(anim.groups)[i].data_offset
            + TracksOfGroups(anim.groups)[i].data_size <= Len(anim.buffer)

\* Node names are unique within each group.
NamesUnique(anim) ==
    \A g \in 1..Len(anim.groups) :
        \A i, j \in 1..Len(anim.groups[g].nodes) :
            anim.groups[g].nodes[i].name = anim.groups[g].nodes[j].name => i = j

\* At most one group per category.
OneGroupPerType(anim) ==
    \A i, j \in 1..Len(anim.groups) :
        anim.groups[i].group_type = anim.groups[j].group_type => i = j

(***************************************************************************)
(* Claims                                                                  *)
(***************************************************************************)

\* C1 (bone preservation): whenever splice_anim returns a container, every
\* node of the reference's Transform groups has a node of the same name in
\* the output's Transform group with as many tracks, and each of these
\* tracks addresses, in the output buffer, the bytes that the corresponding
\* reference track addresses in the reference buffer.
C1_BonePreservation ==
    Spliced =>
        \A i \in 1..Len(TransformNodes(RefAnim)) :
            \E j \in 1..Len(TransformNodes(OutAnim)) :
                LET rn == TransformNodes(RefAnim)[i]
                    on == TransformNodes(OutAnim)[j]
                IN /\ on.name = rn.name
                   /\ Len(on.tracks) = Len(rn.tracks)
                   /\ \A k \in 1..Len(rn.tracks) :
                        /\ on.tracks[k].data_size = rn.tracks[k].data_size
                        /\ Bytes(OutAnim.buffer, on.tracks[k])
                            = Bytes(RefAnim.buffer, rn.tracks[k])

OtherTypes == {"Visibility", "Material"}

\* No Transform node of the container is without a track.
BonesHaveTrack(anim) ==
    \A i \in 1..Len(TransformNodes(anim)) : TransformNodes(anim)[i].tracks # <<>>

\* Some group of the output of category ty has the nodes, track metadata
\* and payload bytes of the first group of that category of src.
SameGroup(ty, src) ==
    \E g \in 1..Len(GroupsOfType(OutAnim, ty)) :
        NodesView(OutAnim, GroupsOfType(OutAnim, ty)[g].nodes)
            = NodesView(src, GroupsOfType(src, ty)[1].nodes)

\* C2 (fallback correctness): for two supported containers that respect their
\* bookkeeping, and for Visibility and Material independently: if the
\* modified container has a group of the category, a returned container has
\* that group's nodes, metadata and payload; if only the reference has one,
\* splice_anim returns a container, with the reference group's nodes,
\* metadata and payload (each track's own range); if neither has one, a
\* returned container has none.
C2_FallbackCorrectness ==
    (/\ SplicedSupported
     /\ RangesValid(RefAnim) /\ RangesValid(ModAnim) /\ BonesHaveTrack(RefAnim))
    => \A ty \in OtherTypes :
        IF HasGroup(ModAnim, ty)
        THEN call.result.status = "Ok" => SameGroup(ty, ModAnim)
        ELSE IF HasGroup(RefAnim, ty)
        THEN call.result.status = "Ok" /\ SameGroup(ty, RefAnim)
        ELSE call.result.status = "Ok" => ~HasGroup(OutAnim, ty)

\* The source tracks of the output in emission order: the reference's
\* Transform tracks, the tracks of the modified Transform nodes whose name
\* the reference lacks, the tracks of the modified container's other
\* groups, and those of the reference's other groups whose category the
\* modified container lacks.
SourceTracks ==
    TracksOfNodes(TransformNodes(RefAnim))
    \o TracksOfNodes(SelectSeq(TransformNodes(ModAnim),
            LAMBDA nd : nd.name \notin NodeNames(TransformNodes(RefAnim))))
    \o TracksOfGroups(SelectSeq(ModAnim.groups,
            LAMBDA g : g.group_type \in OtherTypes))
    \o TracksOfGroups(SelectSeq(RefAnim.groups,
            LAMBDA g : g.group_type \in OtherTypes /\ ~HasGroup(ModAnim, g.group_type)))

\* C3 (offset packing): in every returned container, with the tracks listed
\* in emission order, each data_offset is the sum of the data_size of the
\* tracks before it, each data_size is its source track's, and the buffer
\* is as long as the sum of all data_size.
C3_OffsetPacking ==
    Spliced =>
        LET ts == TracksOfGroups(OutAnim.groups) IN
        /\ \A k \in 1..Len(ts) : ts[k].data_offset = SumSizes(SubSeq(ts, 1, k - 1))
        /\ Len(ts) = Len(SourceTracks)
        /\ \A k \in 1..Len(ts) : ts[k].data_size = SourceTracks[k].data_size
        /\ Len(OutAnim.buffer) = SumSizes(ts)

\* The modified Transform nodes whose name no reference Transform node has.
NewNodes ==
    SelectSeq(TransformNodes(ModAnim),
        LAMBDA nd : nd.name \notin NodeNames(TransformNodes(RefAnim)))

\* C4 (new-bone inclusion): for a modified container with unique node names
\* and one group per category, the output Transform group holds the
\* reference's Transform nodes followed by exactly the modified Transform
\* nodes of a new name, once each and in the modified order, each with the
\* metadata and the payload bytes it has in the modified container; a
\* modified node of a name the reference has adds no node.
C4_NewBoneInclusion ==
    (Spliced /\ NamesUnique(ModAnim) /\ OneGroupPerType(ModAnim)) =>
        LET outN == OutAnim.groups[1].nodes
            nRef == Len(TransformNodes(RefAnim))
        IN /\ OutAnim.groups[1].group_type = "Transform"
           /\ Len(outN) = nRef + Len(NewNodes)
           /\ \A i \in 1..Len(NewNodes) :
                /\ NodeView(OutAnim, outN[nRef + i]) = NodeView(ModAnim, NewNodes[i])
                /\ Cardinality({j \in 1..Len(outN) : outN[j].name = NewNodes[i].name}) = 1

\* C5 (unsupported variant): whenever splice_anim is given two decoded
\* containers of which one is legacy (V12), it returns an error and no
\* container; the error names the reference when the reference is legacy
\* and the modified container otherwise; nothing is written for the pair:
\* single mode fails with the output path untouched, batch mode leaves the
\* output folder without a file of the pair's name.
C5_UnsupportedVariant ==
    (/\ call.made /\ call.reference.readable /\ call.modified.readable
     /\ "V12" \in {RefAnim.variant, ModAnim.variant})
    => /\ call.result.status = "Err"
       /\ call.result.anim = NoAnim
       /\ call.result.error =
            IF RefAnim.variant = "V12" THEN "v12 reference anim not supported!"
            ELSE "v12 modified anim not supported!"
       /\ output_file = Absent
       /\ call.file_name = 0 => pc = "failed"
       /\ call.file_name # 0 =>
            /\ output_dir[call.file_name] = Absent
            /\ pc # "panicked"

\* Batch mode went past a pair of two legacy containers to the end of the
\* list.
C5_Witness ==
    /\ call.made /\ call.reference.readable /\ call.modified.readable
    /\ RefAnim.variant = "V12" /\ ModAnim.variant = "V12"
    /\ call.result.status = "Err"
    /\ call.file_name # 0 /\ pc = "done"

\* A source container violates its bookkeeping.
MalformedSource ==
    \/ ~RangesValid(RefAnim) \/ ~RangesValid(ModAnim)
    \/ ~BonesHaveTrack(RefAnim)

\* C6 (malformed source): whenever a source container violates its
\* bookkeeping (a track range past the end of its buffer, a reference
\* Transform node without a track), splice_anim returns the error
\* MalformedSource to its caller and the process does not abort.
C6_MalformedSourceError ==
    (SplicedSupported /\ MalformedSource)
    => /\ call.result.status = "Err"
       /\ call.result.error = "MalformedSource"
       /\ pc # "panicked"

\* C7 (metadata from the reference): every returned container has the
\* reference's variant, final_frame_index, name, unk1, unk2 and unk_data.
C7_MetadataFromReference ==
    Spliced =>
        /\ OutAnim.variant = RefAnim.variant
        /\ OutAnim.final_frame_index = RefAnim.final_frame_index
        /\ OutAnim.name = RefAnim.name
        /\ OutAnim.unk1 = RefAnim.unk1
        /\ OutAnim.unk2 = RefAnim.unk2
        /\ OutAnim.unk_data = RefAnim.unk_data

\* A container was returned for a V21 reference and a V20 modified file, or
\* the reverse, and written.
C7_Witness ==
    /\ Spliced /\ pc = "done"
    /\ RefAnim.variant # ModAnim.variant
    /\ RefAnim.final_frame_index # ModAnim.final_frame_index
    /\ OutAnim.groups[1].nodes # <<>>

\* The data-model invariants: track ranges inside the buffer, unique node
\* names within a group, one group per category, and exactly one track per
\* Transform node.
WellFormed(anim) ==
    /\ RangesValid(anim) /\ NamesUnique(anim) /\ OneGroupPerType(anim)
    /\ \A i \in 1..Len(TransformNodes(anim)) : Len(TransformNodes(anim)[i].tracks) = 1

\* The nodes, track metadata and payload of the groups of a category.
CategoryView(anim, ty) ==
    [g \in 1..Len(GroupsOfType(anim, ty)) |->
        NodesView(anim, GroupsOfType(anim, ty)[g].nodes)]

\* C8 (self-splice): splicing a supported container that satisfies the
\* data-model invariants with itself returns a container whose Transform
\* nodes, and whose Visibility and Material groups, have the same names,
\* track metadata and payload bytes as the input's, in the same order; and
\* splicing that result with itself returns the same groups and buffer.
C8_SelfSplice ==
    (/\ SplicedSupported /\ call.reference = call.modified
     /\ WellFormed(RefAnim))
    => /\ call.result.status = "Ok"
       /\ NodesView(OutAnim, TransformNodes(OutAnim))
            = NodesView(RefAnim, TransformNodes(RefAnim))
       /\ \A ty \in OtherTypes : CategoryView(OutAnim, ty) = CategoryView(RefAnim, ty)
       /\ LET again == splice_anim(File(OutAnim), File(OutAnim)) IN
            /\ again.status = "Ok"
            /\ again.anim.groups = OutAnim.groups
            /\ again.anim.buffer = OutAnim.buffer

\* A container with a Transform group of two bones and itself were spliced.
C8_Witness ==
    /\ SplicedSupported /\ call.reference = call.modified
    /\ WellFormed(RefAnim)
    /\ call.result.status = "Ok"
    /\ Len(TransformNodes(RefAnim)) = 2

\* validate_anim ran on two decoded files of equal final_frame_index that
\* both have a Transform group.
Compared ==
    /\ pc = "validated"
    /\ reference_data.readable /\ modified_data.readable
    /\ reference_data.data.final_frame_index = modified_data.data.final_frame_index
    /\ HasGroup(reference_data.data, "Transform")
    /\ HasGroup(modified_data.data, "Transform")

\* The bones of the (first) Transform group of each side.
RefBones == GroupsOfType(reference_data.data, "Transform")[1].nodes
CandBones == GroupsOfType(modified_data.data, "Transform")[1].nodes

\* C9 (missing bone): when both files have a Transform group and the same
\* final_frame_index, a reference bone whose name no candidate bone has
\* makes the verdict Unsafe, whatever tracks that reference bone has; if it
\* is the first reference bone, the verdict names it as missing.
C9_MissingBone ==
    Compared =>
        \A i \in 1..Len(RefBones) :
            RefBones[i].name \notin NodeNames(CandBones) =>
                /\ rating.rating = "Unsafe"
                /\ i = 1 => (rating.kind = "missing_node"
                                /\ rating.node = RefBones[1].name)

\* The candidate's counterpart of a reference bone: the candidate bone of
\* that name (the last one, should the candidate repeat the name).
Counterpart(bone) ==
    CandBones[CHOOSE j \in 1..Len(CandBones) :
                /\ CandBones[j].name = bone.name
                /\ \A k \in 1..Len(CandBones) : CandBones[k].name = bone.name => k <= j]

\* The reference bone has a first track of Transform values.
Checked(bone) ==
    bone.tracks # <<>> /\ bone.tracks[1].values.kind = "Transform"

Missing_(bone) == bone.name \notin NodeNames(CandBones)
BadTrack(bone) == ~Missing_(bone) /\ ~Checked(Counterpart(bone))
RefValues(bone) == bone.tracks[1].values.values
CandValues(bone) == Counterpart(bone).tracks[1].values.values
LengthDiffers(bone) ==
    /\ ~Missing_(bone) /\ ~BadTrack(bone)
    /\ Len(RefValues(bone)) # Len(CandValues(bone))
DiffersAt(bone, f) == ValuesDiffer(RefValues(bone)[f + 1], CandValues(bone)[f + 1])
ValueDiffers(bone) ==
    /\ ~Missing_(bone) /\ ~BadTrack(bone) /\ ~LengthDiffers(bone)
    /\ \E f \in 0..(Len(RefValues(bone)) - 1) : DiffersAt(bone, f)

\* A reference bone that is not skipped and whose counterpart is missing,
\* has no Transform-typed first track, or has other values.
Discrepancy(bone) ==
    Checked(bone)
    /\ (Missing_(bone) \/ BadTrack(bone) \/ LengthDiffers(bone) \/ ValueDiffers(bone))

\* The candidate without the bones whose name the reference lacks.
WithoutExtraBones ==
    [modified_data EXCEPT !.data.groups =
        [g \in 1..Len(modified_data.data.groups) |->
            IF modified_data.data.groups[g].group_type = "Transform"
            THEN Group("Transform",
                    SelectSeq(modified_data.data.groups[g].nodes,
                        LAMBDA nd : nd.name \in NodeNames(RefBones)))
            ELSE modified_data.data.groups[g]]]

\* C10 (value comparison): when both files have a Transform group and the
\* same final_frame_index, the verdict is Safe exactly when no reference
\* bone that is not skipped has a discrepancy, and Unsafe otherwise; the
\* first reference bone with a discrepancy decides: a counterpart without a
\* Transform-typed first track is reported as such, a length difference
\* with both lengths, and otherwise the smallest frame index at which the
\* values differ with both values; candidate bones of a name the reference
\* lacks do not change the verdict.
C10_ValueComparison ==
    Compared =>
        LET bad == {i \in 1..Len(RefBones) : Discrepancy(RefBones[i])} IN
        /\ rating.rating = (IF bad = {} THEN "Safe" ELSE "Unsafe")
        /\ bad # {} =>
            LET bone == RefBones[CHOOSE i \in bad : \A j \in bad : i <= j] IN
            /\ rating.node = bone.name
            /\ Missing_(bone) => rating.kind = "missing_node"
            /\ BadTrack(bone) =>
                rating.kind = (IF Counterpart(bone).tracks = <<>>
                               THEN "missing_track" ELSE "not_transform")
            /\ LengthDiffers(bone) =>
                /\ rating.kind = "length"
                /\ rating.reference_len = Len(RefValues(bone))
                /\ rating.modified_len = Len(CandValues(bone))
            /\ ValueDiffers(bone) =>
                /\ rating.kind = "value"
                /\ DiffersAt(bone, rating.index)
                /\ \A f \in 0..(rating.index - 1) : ~DiffersAt(bone, f)
                /\ rating.reference_value = RefValues(bone)[rating.index + 1]
                /\ rating.modified_value = CandValues(bone)[rating.index + 1]
        /\ validate_anim(reference_data, WithoutExtraBones) = rating

\* The second reference bone decided the verdict by a value that differs,
\* the first having an equal counterpart.
C10_Witness ==
    /\ Compared
    /\ Len(RefBones) = 2 /\ RefBones[1].name # RefBones[2].name
    /\ Checked(RefBones[1]) /\ ~Discrepancy(RefBones[1])
    /\ rating.rating = "Unsafe" /\ rating.kind = "value"
    /\ rating.node = RefBones[2].name

\* validate_anim ran on two decoded files.
Validated ==
    /\ pc = "validated"
    /\ reference_data.readable /\ modified_data.readable

\* The file without its Visibility and Material groups.
TransformOnly(file) ==
    [file EXCEPT !.data.groups = GroupsOfType(file.data, "Transform")]

\* C11 (check order): on two decoded files, different final_frame_index
\* values give Unsafe whatever the groups are; with equal values, the
\* verdict is Unsafe when only the reference has a Transform group, Warning
\* when only the candidate has one, Safe when neither has one; and the
\* verdict is the one the files get without their Visibility and Material
\* groups.
C11_CheckOrder ==
    Validated =>
        LET same == reference_data.data.final_frame_index
                        = modified_data.data.final_frame_index
            ref == HasGroup(reference_data.data, "Transform")
            cand == HasGroup(modified_data.data, "Transform")
        IN /\ ~same => rating = Unsafe("final_frame_index", "")
           /\ (same /\ ref /\ ~cand) => rating = Unsafe("no_transform_group", "")
           /\ (same /\ ~ref /\ cand) => rating = Warning("reference_no_transform_group")
           /\ (same /\ ~ref /\ ~cand) => rating = Safe
           /\ (~same \/ ~ref \/ ~cand) =>
                rating = validate_anim(TransformOnly(reference_data),
                                       TransformOnly(modified_data))

\* The final_frame_index values differ, only the candidate has a Transform
\* group, the reference has Visibility and Material groups: Unsafe.
C11_Witness ==
    /\ Validated
    /\ reference_data.data.final_frame_index # modified_data.data.final_frame_index
    /\ reference_data.data.groups = <<VisibilityData, MaterialData>>
    /\ HasGroup(modified_data.data, "Transform")
    /\ rating.rating = "Unsafe" /\ rating.kind = "final_frame_index"

\* What the batch driver's pair at position i splices to.
PairResult(i) ==
    splice_anim(reference_anim_paths[modified_anim_paths[i].file_name].file,
                modified_anim_paths[i].file)

\* The pair at position i has a reference file and splices to a container.
PairSplices(i) ==
    /\ reference_anim_paths[modified_anim_paths[i].file_name].present
    /\ PairResult(i).status = "Ok"

\* do_batch_mode returned Ok after visiting every modified file.
BatchEnded ==
    /\ pc = "done"
    /\ idx = Len(modified_anim_paths) + 1

\* No pair of the list makes splice_anim panic.
NoPairPanics ==
    \A i \in 1..Len(modified_anim_paths) :
        reference_anim_paths[modified_anim_paths[i].file_name].present =>
            PairResult(i).status # "Panic"

\* Every pair that splices has its container in the output folder under
\* the modified file's name.
OutputsWritten ==
    \A i \in 1..Len(modified_anim_paths) :
        PairSplices(i) =>
            output_dir[modified_anim_paths[i].file_name]
                = Written(PairResult(i).anim)

\* C12 (batch continuation): do_batch_mode, whatever happens to single
\* pairs (no reference file of the name, a splice error, a failed write of
\* the output), goes on to the end of the list of modified files and
\* returns, and every pair that spliced and was written has its output
\* under the modified file's name.  Stated for the lists in which no pair
\* makes splice_anim panic, so that only the failures the claim names occur.
C12_BatchContinuation ==
    (pc = "batch" /\ NoPairPanics) ~> (BatchEnded /\ OutputsWritten)

\* The same on the steps: a failed write of one pair's output does not end
\* do_batch_mode before the end of the list.
C12_WriteFailureSkips ==
    (/\ pc = "failed" /\ call.made /\ call.file_name # 0
     /\ call.result.status = "Ok")
    => idx > Len(modified_anim_paths)

\* Every Transform node of the container has a track.
BonesHaveTracks(anim) ==
    \A i \in 1..Len(TransformNodes(anim)) : TransformNodes(anim)[i].tracks # <<>>

\* The data-model invariants C13 asks of an input.
Sound(anim) == NamesUnique(anim) /\ BonesHaveTracks(anim) /\ RangesValid(anim)

\* C13 (splice output passes validation): when splice_anim returns a
\* container for two supported inputs with unique node names per group, at
\* least one track per Transform node and all track ranges inside the
\* buffer, validate_anim on the reference and that output is not Unsafe.
C13_OutputValidates ==
    (Spliced /\ Sound(RefAnim) /\ Sound(ModAnim))
    => validate_anim(Decode(RefAnim), Decode(OutAnim)).rating # "Unsafe"

\* A group without payload and offsets: its category, its nodes' names and
\* their tracks' metadata and sizes.
Shape(group) ==
    [group_type |-> group.group_type,
     nodes |-> [i \in 1..Len(group.nodes) |->
        [name |-> group.nodes[i].name,
         tracks |-> [k \in 1..Len(group.nodes[i].tracks) |->
            [name |-> group.nodes[i].tracks[k].name,
             data_size |-> group.nodes[i].tracks[k].data_size]]]]]

Shapes(groups) == [g \in 1..Len(groups) |-> Shape(groups[g])]

NonTransform(anim) == SelectSeq(anim.groups, LAMBDA g : g.group_type # "Transform")

\* The reference's non-Transform groups of a category the modified
\* container lacks.
OnlyInReference ==
    SelectSeq(NonTransform(RefAnim),
              LAMBDA g : ~HasGroup(ModAnim, g.group_type))

\* The modified Transform nodes of a name no reference Transform node has.
AddedBones ==
    SelectSeq(TransformNodes(ModAnim),
              LAMBDA nd : nd.name \notin NodeNames(TransformNodes(RefAnim)))

\* C14 (output group structure): a container returned by splice_anim has
\* as first group a Transform group holding the nodes of all the
\* reference's Transform groups followed by the modified container's
\* Transform nodes of other names (no node if neither input has a Transform
\* group); then the modified container's non-Transform groups in their
\* order; then the reference's non-Transform groups of the categories the
\* modified container lacks; no further group.  With at most one group per
\* category in each input, the output has at most one group per category.
C14_GroupStructure ==
    Spliced =>
        /\ Shapes(OutAnim.groups) =
            <<Shape(Group("Transform", TransformNodes(RefAnim) \o AddedBones))>>
            \o Shapes(NonTransform(ModAnim))
            \o Shapes(OnlyInReference)
        /\ Len(GroupsOfType(OutAnim, "Transform")) = 1
        /\ (OneGroupPerType(RefAnim) /\ OneGroupPerType(ModAnim))
            => OneGroupPerType(OutAnim)

\* The reference has a Transform and a Visibility group, the modified
\* container a Material group only: the output has the three groups.
C14_Witness ==
    /\ Spliced
    /\ Len(RefAnim.groups) = 2
    /\ HasGroup(RefAnim, "Transform") /\ HasGroup(RefAnim, "Visibility")
    /\ Len(ModAnim.groups) = 1 /\ HasGroup(ModAnim, "Material")
    /\ [g \in 1..Len(OutAnim.groups) |-> OutAnim.groups[g].group_type]
        = <<"Transform", "Material", "Visibility">>

\* Neither input has a Transform group: the output's is empty.
C14_WitnessEmpty ==
    /\ Spliced
    /\ ~HasGroup(RefAnim, "Transform") /\ ~HasGroup(ModAnim, "Transform")
    /\ ModAnim.groups # <<>>
    /\ OutAnim.groups[1] = Group("Transform", <<>>)

\* The reference has two Transform groups with a node each: the output's
\* one Transform group has both nodes.
C14_WitnessMerged ==
    /\ Spliced
    /\ Len(GroupsOfType(RefAnim, "Transform")) = 2
    /\ Len(TransformNodes(RefAnim)) = 2
    /\ Len(OutAnim.groups) = 1
    /\ Len(OutAnim.groups[1].nodes) >= 2

====
